---- MODULE Spec2Model ----
(***************************************************************************)
(* Model of mdcat's terminal detection (src/terminal/detect.rs), style     *)
(* layering (pulldown-cmark-mdcat/src/theme.rs) and SVG rasterization      *)
(* (pulldown-cmark-mdcat/src/resources/svg.rs).                            *)
(*                                                                         *)
(* Four specifications share the variables; each one holds the variables   *)
(* of the other components at their initial value:                         *)
(*   Spec      - TerminalProgram::detect and ::capabilities                *)
(*   EnvSpec   - the tests' with_vars / RestoreEnv / ENV_MUTEX             *)
(*   StyleSpec - <Style as CombineStyle>::on_top_of                        *)
(*   SvgSpec   - render_svg_to_png and the FONTS OnceLock                  *)
(***************************************************************************)
EXTENDS Integers, Sequences, FiniteSets, TLC

VARIABLES
    env,        \* the process environment: variable name -> Option<OsString>
    detected,   \* Option<TerminalProgram>: what the last detect() returned
    capsOf,     \* Option<TerminalProgram>: the identity capabilities() was last called on
    caps,       \* the TerminalCapabilities that call returned
    sa, sb, sc, \* three anstyle::Style values, topmost first
    merged,     \* Option of the styles on_top_of returned for them
    svgFeature, \* whether the build has cfg(feature = "svg")
    FONTS,      \* the OnceLock<fontdb::Database>
    builds,     \* how many times the closure of FONTS.get_or_init has run
    cpc,        \* caller -> where it is in render_svg_to_png
    csvg,       \* caller -> Option of the svg bytes it last passed (as a document)
    ctree,      \* caller -> Option of the parsed tree's size
    cfonts,     \* caller -> Option of the catalog get_or_init returned to it
    cpixmap,    \* caller -> Option of the size of the pixmap it allocated
    csteps,     \* caller -> the pipeline steps its current (or last) call has run
    cresult,    \* caller -> Option of the Result its last call returned
    ENV_MUTEX,  \* the tests' Mutex<()>: whether it is locked, whether poisoned
    tpc,        \* test thread -> where it is in with_vars
    tvars,      \* test thread -> the `vars` of its with_vars call
    tblock,     \* test thread -> the identity its `block` asserts detect() to be
    ti,         \* test thread -> index of the loop it is in
    told,       \* test thread -> old_env.env, a map as a set of <<name, value>>
    trest,      \* test thread -> the entries RestoreEnv::drop has yet to visit
    tpanicking, \* test thread -> whether it is unwinding from a panic of `block`
    tout        \* test thread -> how its last with_vars call ended

detectVars == <<env, detected, capsOf, caps>>

styleVars == <<sa, sb, sc, merged>>

svgVars ==
    <<svgFeature, FONTS, builds, cpc, csvg, ctree, cfonts, cpixmap, csteps, cresult>>

testVars == <<ENV_MUTEX, tpc, tvars, tblock, ti, told, trest, tpanicking, tout>>

vars == <<detectVars, styleVars, svgVars, testVars>>

----------------------------------------------------------------------------
(* Option<T>: None is the empty tuple, Some(v) the one-element tuple.      *)
None == <<>>

Some(v) == <<v>>

IsSome(o) == o # None

\* Option::or_else(f): self when it is Some, otherwise f()
or_else(o, f) == IF IsSome(o) THEN o ELSE f

\* Option::unwrap_or(default)
unwrap_or(o, default) == IF IsSome(o) THEN o[1] ELSE default

----------------------------------------------------------------------------
(* The environment                                                         *)

EnvNames == {"TERM", "TERM_PROGRAM", "TERMINOLOGY"}

\* An OsString that is not valid Unicode: std::env::var fails on it.
NotUnicode == "<not-unicode>"

\* Values an environment variable is given in the model (besides unset).
EnvStrings ==
    {"xterm-kitty", "wezterm", "xterm-256color", "dumb",
     "WezTerm", "iTerm.app", "1", "0", "true", NotUnicode}

EnvValues == {None} \cup {Some(s) : s \in EnvStrings}

\* std::env::var(name).ok(): None when unset or not valid Unicode
env_var(name) ==
    IF IsSome(env[name]) /\ env[name][1] # NotUnicode THEN env[name] ELSE None

----------------------------------------------------------------------------
(* TerminalProgram                                                         *)

TerminalProgram == {"Dumb", "Ansi", "ITerm2", "Terminology", "Kitty", "WezTerm"}

detect_term ==
    LET term == env_var("TERM") IN
    CASE term = Some("wezterm") -> Some("WezTerm")
      [] term = Some("xterm-kitty") -> Some("Kitty")
      [] OTHER -> None

detect_term_program ==
    LET prog == env_var("TERM_PROGRAM") IN
    CASE prog = Some("WezTerm") -> Some("WezTerm")
      [] prog = Some("iTerm.app") -> Some("ITerm2")
      [] OTHER -> None

\* the closure of detect(): |\| match std::env::var("TERMINOLOGY") ...
detect_terminology ==
    LET t == env_var("TERMINOLOGY") IN
    CASE t = Some("1") -> Some("Terminology")
      [] OTHER -> None

\* detect() with the first two lookups swapped ($TERM_PROGRAM before $TERM)
detect_TermProgramFirst ==
    unwrap_or(or_else(or_else(detect_term_program, detect_term),
                      detect_terminology), "Ansi")

\* detect() falling back to Dumb instead of Ansi
detect_DumbFallback ==
    unwrap_or(or_else(or_else(detect_term, detect_term_program),
                      detect_terminology), "Dumb")

\* detect() reading any set $TERMINOLOGY as true
detect_TerminologySet ==
    unwrap_or(or_else(or_else(detect_term, detect_term_program),
                      IF IsSome(env_var("TERMINOLOGY"))
                      THEN Some("Terminology") ELSE None), "Ansi")

detect ==
    unwrap_or(or_else(or_else(detect_term, detect_term_program),
                      detect_terminology), "Ansi")

----------------------------------------------------------------------------
(* TerminalCapabilities                                                    *)

\* TerminalCapabilities::default(): every capability absent
DefaultCapabilities ==
    [style |-> None, links |-> None, image |-> None, marks |-> None]

with_image_capability(c, cap) == [c EXCEPT !.image = Some(cap)]

with_mark_capability(c, cap) == [c EXCEPT !.marks = Some(cap)]

\* the local `ansi` of capabilities()
ansi ==
    [style |-> Some("Ansi"), links |-> Some("Osc8"), image |-> None, marks |-> None]

\* capabilities() giving WezTerm the marks of ITerm2 as well
capabilities_WezTermMarks(self) ==
    CASE self = "Dumb" -> DefaultCapabilities
      [] self = "Ansi" -> ansi
      [] self = "Terminology" -> with_image_capability(ansi, "Terminology")
      [] self = "Kitty" -> with_image_capability(ansi, "Kitty")
      [] self \in {"ITerm2", "WezTerm"} ->
            with_image_capability(with_mark_capability(ansi, "ITerm2"), "ITerm2")

capabilities(self) ==
    CASE self = "Dumb" -> DefaultCapabilities
      [] self = "Ansi" -> ansi
      [] self = "ITerm2" ->
            with_image_capability(with_mark_capability(ansi, "ITerm2"), "ITerm2")
      [] self = "Terminology" -> with_image_capability(ansi, "Terminology")
      [] self = "Kitty" -> with_image_capability(ansi, "Kitty")
      [] self = "WezTerm" -> with_image_capability(ansi, "ITerm2")

----------------------------------------------------------------------------
(* anstyle::Style and CombineStyle                                         *)

\* Colours are 1..NumColors.
NumColors == 2

\* Effects is a bit set; the model keeps its low NumEffects flags.
NumEffects == 2

\* The most attributes set over the three styles together.
MaxAttrs == 3

Colors == 1..NumColors

OptColors == {None} \cup {Some(col) : col \in Colors}

RECURSIVE Pow2(_)
Pow2(n) == IF n = 0 THEN 1 ELSE 2 * Pow2(n - 1)

EffectBits == 0..(Pow2(NumEffects) - 1)

\* Option::or(optb): self when it is Some, otherwise optb
or(o, optb) == IF IsSome(o) THEN o ELSE optb

\* Option::xor(optb): Some when exactly one of the two is Some
xor(o, optb) ==
    CASE IsSome(o) /\ ~IsSome(optb) -> o
      [] ~IsSome(o) /\ IsSome(optb) -> optb
      [] OTHER -> None

\* Effects | Effects: bitwise or of the two bit sets
RECURSIVE BitOr(_, _)
BitOr(x, y) ==
    IF x = 0 THEN y
    ELSE IF y = 0 THEN x
    ELSE (IF x % 2 = 1 \/ y % 2 = 1 THEN 1 ELSE 0) + 2 * BitOr(x \div 2, y \div 2)

\* Effects & Effects
RECURSIVE BitAnd(_, _)
BitAnd(x, y) ==
    IF x = 0 \/ y = 0 THEN 0
    ELSE (IF x % 2 = 1 /\ y % 2 = 1 THEN 1 ELSE 0) + 2 * BitAnd(x \div 2, y \div 2)

\* Style::new(): nothing set, no effects
NewStyle == [fg |-> None, bg |-> None, underline |-> None, effects |-> 0]

fg_color(s, col) == [s EXCEPT !.fg = col]

bg_color(s, col) == [s EXCEPT !.bg = col]

underline_color(s, col) == [s EXCEPT !.underline = col]

effects(s, e) == [s EXCEPT !.effects = e]

\* on_top_of with & in place of | for the effects
on_top_of_EffectsAnd(self, other) ==
    underline_color(
        effects(
            bg_color(
                fg_color(NewStyle, or(self.fg, other.fg)),
                or(self.bg, other.bg)),
            BitAnd(other.effects, self.effects)),
        or(self.underline, other.underline))

\* on_top_of with xor in place of or for the foreground
on_top_of_FgXor(self, other) ==
    underline_color(
        effects(
            bg_color(
                fg_color(NewStyle, xor(self.fg, other.fg)),
                or(self.bg, other.bg)),
            BitOr(other.effects, self.effects)),
        or(self.underline, other.underline))

on_top_of(self, other) ==
    underline_color(
        effects(
            bg_color(
                fg_color(NewStyle, or(self.fg, other.fg)),
                or(self.bg, other.bg)),
            BitOr(other.effects, self.effects)),
        or(self.underline, other.underline))

\* Number of attributes a style sets
NumSet(s) ==
    (IF IsSome(s.fg) THEN 1 ELSE 0) + (IF IsSome(s.bg) THEN 1 ELSE 0)
    + (IF IsSome(s.underline) THEN 1 ELSE 0) + (IF s.effects # 0 THEN 1 ELSE 0)

WithinAttrs(x, y, z) == NumSet(x) + NumSet(y) + NumSet(z) <= MaxAttrs

StyleIdle ==
    /\ sa = NewStyle
    /\ sb = NewStyle
    /\ sc = NewStyle
    /\ merged = None

StyleAt(which) == IF which = 1 THEN sa ELSE IF which = 2 THEN sb ELSE sc

\* One of the three styles is replaced by `s`, which sets one attribute
\* more (setting an attribute again reaches no further style)
Build(which, s) ==
    /\ merged = None
    /\ NumSet(s) = NumSet(StyleAt(which)) + 1
    /\ sa' = IF which = 1 THEN s ELSE sa
    /\ sb' = IF which = 2 THEN s ELSE sb
    /\ sc' = IF which = 3 THEN s ELSE sc
    /\ WithinAttrs(sa', sb', sc')
    /\ UNCHANGED merged

SetFgColor ==
    \E which \in 1..3, col \in OptColors : Build(which, fg_color(StyleAt(which), col))

SetBgColor ==
    \E which \in 1..3, col \in OptColors : Build(which, bg_color(StyleAt(which), col))

SetUnderlineColor ==
    \E which \in 1..3, col \in OptColors :
        Build(which, underline_color(StyleAt(which), col))

SetEffects ==
    \E which \in 1..3, e \in EffectBits : Build(which, effects(StyleAt(which), e))

\* sa.on_top_of(&sb), sb.on_top_of(&sc), and the two ways of layering all three
Layer ==
    /\ merged = None
    /\ merged' = Some([ab |-> on_top_of(sa, sb),
                       bc |-> on_top_of(sb, sc),
                       left |-> on_top_of(on_top_of(sa, sb), sc),
                       right |-> on_top_of(sa, on_top_of(sb, sc))])
    /\ UNCHANGED <<sa, sb, sc>>

----------------------------------------------------------------------------
(* render_svg_to_png                                                       *)

\* Threads calling render_svg_to_png concurrently.
NumCallers == 2

\* The largest width or height of a document.
MaxDim == 1

Callers == 1..NumCallers

\* The svg bytes, as what they hold: bytes that do not parse, or a document
\* of some size.
Documents ==
    {[valid |-> FALSE, width |-> 0, height |-> 0]}
    \cup {[valid |-> TRUE, width |-> w, height |-> h] : w \in 0..MaxDim, h \in 1..MaxDim}

\* usvg::Tree::from_data(svg, &opt): Err(usvg::Error) for bytes that do not parse
from_data(svg) ==
    IF svg.valid THEN Some([width |-> svg.width, height |-> svg.height]) ELSE None

\* Pixmap::new(width, height): None for a zero width or height
Pixmap_new(width, height) ==
    IF width = 0 \/ height = 0 THEN None
    ELSE Some([width |-> width, height |-> height])

Err(e) == [ok |-> FALSE, value |-> e]

Ok(v) == [ok |-> TRUE, value |-> v]

\* OnceLock::new()
OnceLock_new == [state |-> "incomplete", value |-> None]

\* get_or_init running its closure whenever the value is not there yet
\* (a check of FONTS.get() followed by a set, without the Once)
OnceMayRunInit_Unsynchronized(cell) == cell.state # "complete"

\* get_or_init runs its closure only when no initialisation has begun
OnceMayRunInit(cell) == cell.state = "incomplete"

\* parse_svg reaching FONTS before it parses the bytes
parse_svg_FontsFirst == <<"fonts", "parse", "convert">>

\* The statements of parse_svg, in order: Tree::from_data(..)?, then
\* FONTS.get_or_init(..), then convert_text and from_usvg.
parse_svg == <<"parse", "fonts", "convert">>

\* Where a caller goes after statement `stage` of parse_svg.
After(stage) ==
    LET i == CHOOSE k \in 1..Len(parse_svg) : parse_svg[k] = stage IN
    IF i < Len(parse_svg) THEN parse_svg[i + 1] ELSE "pixmap"

\* the build without the feature running the resvg implementation all the same
Implementation_AlwaysResvg(feature) == "resvg"

\* which `mod implementation` the build compiles
Implementation(feature) == IF feature THEN "resvg" ELSE "unsupported"

SvgIdle ==
    /\ FONTS = OnceLock_new
    /\ builds = 0
    /\ cpc = [t \in Callers |-> "idle"]
    /\ csvg = [t \in Callers |-> None]
    /\ ctree = [t \in Callers |-> None]
    /\ cfonts = [t \in Callers |-> None]
    /\ cpixmap = [t \in Callers |-> None]
    /\ csteps = [t \in Callers |-> <<>>]
    /\ cresult = [t \in Callers |-> None]

\* The call returns `result`; its locals are dropped (svg is the caller's).
Return(t, result) ==
    /\ cpc' = [cpc EXCEPT ![t] = "idle"]
    /\ cresult' = [cresult EXCEPT ![t] = Some(result)]
    /\ UNCHANGED csvg
    /\ ctree' = [ctree EXCEPT ![t] = None]
    /\ cfonts' = [cfonts EXCEPT ![t] = None]
    /\ cpixmap' = [cpixmap EXCEPT ![t] = None]

Step(t, name) == csteps' = [csteps EXCEPT ![t] = Append(@, name)]

\* render_svg_to_png without the feature: Err(Unsupported), nothing else
CallUnsupported(t) ==
    /\ cpc[t] = "idle"
    /\ Implementation(svgFeature) = "unsupported"
    /\ \E svg \in Documents :
          /\ csteps' = [csteps EXCEPT ![t] = <<>>]
          /\ Return(t, Err("Unsupported"))
    /\ UNCHANGED <<svgFeature, FONTS, builds>>

\* render_svg_to_png(svg) with the feature: enters parse_svg
Call(t) ==
    /\ cpc[t] = "idle"
    /\ Implementation(svgFeature) = "resvg"
    /\ \E svg \in Documents : csvg' = [csvg EXCEPT ![t] = Some(svg)]
    /\ cpc' = [cpc EXCEPT ![t] = parse_svg[1]]
    /\ csteps' = [csteps EXCEPT ![t] = <<>>]
    /\ cresult' = [cresult EXCEPT ![t] = None]
    /\ UNCHANGED <<svgFeature, FONTS, builds, ctree, cfonts, cpixmap>>

\* usvg::Tree::from_data(svg, &opt)? fails: the ParseError is returned
ParseFail(t) ==
    /\ cpc[t] = "parse"
    /\ from_data(csvg[t][1]) = None
    /\ Step(t, "parse")
    /\ Return(t, Err("ParseError"))
    /\ UNCHANGED <<svgFeature, FONTS, builds>>

\* usvg::Tree::from_data(svg, &opt)? succeeds
ParseOk(t) ==
    /\ cpc[t] = "parse"
    /\ from_data(csvg[t][1]) # None
    /\ Step(t, "parse")
    /\ ctree' = [ctree EXCEPT ![t] = from_data(csvg[t][1])]
    /\ cpc' = [cpc EXCEPT ![t] = After("parse")]
    /\ UNCHANGED <<svgFeature, FONTS, builds, csvg, cfonts, cpixmap, cresult>>

\* FONTS.get_or_init(..) on an initialised cell: the value, at once
FontsGet(t) ==
    /\ cpc[t] = "fonts"
    /\ FONTS.state = "complete"
    /\ cfonts' = [cfonts EXCEPT ![t] = FONTS.value]
    /\ cpc' = [cpc EXCEPT ![t] = After("fonts")]
    /\ UNCHANGED <<svgFeature, FONTS, builds, csvg, ctree, cpixmap, csteps, cresult>>

\* FONTS.get_or_init(..) on an empty cell: this caller runs the closure.
\* A caller that finds the cell "running" has no step: it waits.
FontsStartInit(t) ==
    /\ cpc[t] = "fonts"
    /\ OnceMayRunInit(FONTS)
    /\ FONTS' = [FONTS EXCEPT !.state = "running"]
    /\ cpc' = [cpc EXCEPT ![t] = "build"]
    /\ UNCHANGED <<svgFeature, builds, csvg, ctree, cfonts, cpixmap, csteps, cresult>>

\* the closure: Database::new(), load_system_fonts(); the cell takes the value
FontsFinishInit(t) ==
    /\ cpc[t] = "build"
    /\ builds' = builds + 1
    /\ FONTS' = [state |-> "complete", value |-> Some(builds + 1)]
    /\ cfonts' = [cfonts EXCEPT ![t] = Some(builds + 1)]
    /\ Step(t, "load_system_fonts")
    /\ cpc' = [cpc EXCEPT ![t] = After("fonts")]
    /\ UNCHANGED <<svgFeature, csvg, ctree, cpixmap, cresult>>

\* tree.convert_text(fonts); Ok(Tree::from_usvg(&tree))
ConvertText(t) ==
    /\ cpc[t] = "convert"
    /\ Step(t, "convert_text")
    /\ cpc' = [cpc EXCEPT ![t] = After("convert")]
    /\ UNCHANGED <<svgFeature, FONTS, builds, csvg, ctree, cfonts, cpixmap, cresult>>

\* Pixmap::new(..).ok_or(FailedToCreatePixmap(size))? fails
PixmapFail(t) ==
    /\ cpc[t] = "pixmap"
    /\ Pixmap_new(ctree[t][1].width, ctree[t][1].height) = None
    /\ Step(t, "pixmap")
    /\ Return(t, Err("FailedToCreatePixmap"))
    /\ UNCHANGED <<svgFeature, FONTS, builds>>

\* Pixmap::new(..) succeeds
PixmapOk(t) ==
    /\ cpc[t] = "pixmap"
    /\ Pixmap_new(ctree[t][1].width, ctree[t][1].height) # None
    /\ Step(t, "pixmap")
    /\ cpixmap' = [cpixmap EXCEPT ![t] = Pixmap_new(ctree[t][1].width, ctree[t][1].height)]
    /\ cpc' = [cpc EXCEPT ![t] = "render"]
    /\ UNCHANGED <<svgFeature, FONTS, builds, csvg, ctree, cfonts, cresult>>

\* tree.render(Transform::default(), &mut pixmap.as_mut())
Render(t) ==
    /\ cpc[t] = "render"
    /\ Step(t, "render")
    /\ cpc' = [cpc EXCEPT ![t] = "encode"]
    /\ UNCHANGED <<svgFeature, FONTS, builds, csvg, ctree, cfonts, cpixmap, cresult>>

\* pixmap.encode_png() succeeds: the PNG, of the pixmap's size
EncodeOk(t) ==
    /\ cpc[t] = "encode"
    /\ Step(t, "encode_png")
    /\ Return(t, Ok(cpixmap[t][1]))
    /\ UNCHANGED <<svgFeature, FONTS, builds>>

\* pixmap.encode_png() fails: EncodePngError
EncodeFail(t) ==
    /\ cpc[t] = "encode"
    /\ Step(t, "encode_png")
    /\ Return(t, Err("EncodePngError"))
    /\ UNCHANGED <<svgFeature, FONTS, builds>>

----------------------------------------------------------------------------
(* The tests' environment harness: ENV_MUTEX, RestoreEnv, with_vars         *)

\* Test threads calling with_vars concurrently.
NumThreads == 2

Threads == 1..NumThreads

\* The with_vars calls of the tests, in source order: `vars` and the
\* identity the block asserts.
Tests ==
    << [vars |-> << <<"TERM", Some("xterm-kitty")>> >>, expected |-> "Kitty"],
       [vars |-> << <<"TERM", Some("wezterm")>> >>, expected |-> "WezTerm"],
       [vars |-> << <<"TERM", Some("xterm-256color")>>,
                    <<"TERM_PROGRAM", Some("WezTerm")>> >>, expected |-> "WezTerm"],
       [vars |-> << <<"TERM", Some("xterm-256color")>>,
                    <<"TERM_PROGRAM", Some("iTerm.app")>> >>, expected |-> "ITerm2"],
       [vars |-> << <<"TERM", Some("xterm-256color")>>,
                    <<"TERM_PROGRAM", None>>,
                    <<"TERMINOLOGY", Some("1")>> >>, expected |-> "Terminology"],
       [vars |-> << <<"TERM", Some("xterm-256color")>>,
                    <<"TERM_PROGRAM", None>>,
                    <<"TERMINOLOGY", Some("0")>> >>, expected |-> "Ansi"],
       [vars |-> << <<"TERM", Some("xterm-256color")>>,
                    <<"TERM_PROGRAM", None>>,
                    <<"TERMINOLOGY", None>> >>, expected |-> "Ansi"],
       [vars |-> << <<"TERM_PROGRAM", Some("iTerm.app")>>,
                    <<"TERM", Some("xterm-kitty")>> >>, expected |-> "Kitty"] >>

\* The environment the test process starts in.
InheritedEnvs ==
    {e \in [EnvNames -> EnvValues] :
        /\ e["TERM"] \in {None, Some("xterm-256color"), Some("xterm-kitty")}
        /\ e["TERM_PROGRAM"] \in {None, Some("iTerm.app")}
        /\ e["TERMINOLOGY"] \in {None, Some("1")}}

\* HashMap::insert(name, value)
Insert(map, name, value) == {p \in map : p[1] # name} \cup {<<name, value>>}

\* std::env::set_var(name, value) / std::env::remove_var(name), on environment e
Assign(e, name, value) == [e EXCEPT ![name] = value]

\* with_vars taking no lock at all
MayLock_NoMutex(m) == TRUE

\* Mutex::lock() returns only while no other guard exists
MayLock(m) == ~m.locked

\* one iteration of RestoreEnv::drop: set_var for Some(value), remove_var for None
RestoreValue(e, name, value) ==
    IF IsSome(value) THEN Assign(e, name, value) ELSE Assign(e, name, None)

TestIdle ==
    /\ ENV_MUTEX = [locked |-> FALSE, poisoned |-> FALSE]
    /\ tpc = [t \in Threads |-> "idle"]
    /\ tvars = [t \in Threads |-> <<>>]
    /\ tblock = [t \in Threads |-> None]
    /\ ti = [t \in Threads |-> 0]
    /\ told = [t \in Threads |-> {}]
    /\ trest = [t \in Threads |-> {}]
    /\ tpanicking = [t \in Threads |-> FALSE]
    /\ tout = [t \in Threads |-> "none"]

\* with_vars(vars, block): ENV_MUTEX.lock().unwrap() succeeds
Lock(t) ==
    /\ tpc[t] = "idle"
    /\ MayLock(ENV_MUTEX)
    /\ ~ENV_MUTEX.poisoned
    /\ ENV_MUTEX' = [ENV_MUTEX EXCEPT !.locked = TRUE]
    /\ \E k \in 1..Len(Tests), program \in TerminalProgram :
          /\ tvars' = [tvars EXCEPT ![t] = Tests[k].vars]
          /\ tblock' = [tblock EXCEPT ![t] = Some(program)]
    /\ tpc' = [tpc EXCEPT ![t] = "capture"]
    /\ ti' = [ti EXCEPT ![t] = 1]
    /\ told' = [told EXCEPT ![t] = {}]
    /\ tout' = [tout EXCEPT ![t] = "none"]
    /\ UNCHANGED <<env, trest, tpanicking>>

\* ENV_MUTEX.lock() returns a PoisonError and unwrap() panics: the guard in
\* the error is dropped and with_vars is left before it touches anything
LockPoisoned(t) ==
    /\ tpc[t] = "idle"
    /\ MayLock(ENV_MUTEX)
    /\ ENV_MUTEX.poisoned
    /\ tout' = [tout EXCEPT ![t] = "panicked"]
    /\ UNCHANGED <<env, ENV_MUTEX, tpc, tvars, tblock, ti, told, trest, tpanicking>>

\* RestoreEnv::capture: env.env.insert(name, std::env::var_os(name))
Capture(t) ==
    /\ tpc[t] = "capture"
    /\ ti[t] <= Len(tvars[t])
    /\ LET name == tvars[t][ti[t]][1] IN
          told' = [told EXCEPT ![t] = Insert(@, name, env[name])]
    /\ ti' = [ti EXCEPT ![t] = @ + 1]
    /\ UNCHANGED <<env, ENV_MUTEX, tpc, tvars, tblock, trest, tpanicking, tout>>

\* RestoreEnv::capture returns; with_vars enters its loop over &vars
CaptureDone(t) ==
    /\ tpc[t] = "capture"
    /\ ti[t] > Len(tvars[t])
    /\ tpc' = [tpc EXCEPT ![t] = "set"]
    /\ ti' = [ti EXCEPT ![t] = 1]
    /\ UNCHANGED <<env, ENV_MUTEX, tvars, tblock, told, trest, tpanicking, tout>>

\* with_vars: set_var(name, value) or remove_var(name) for one of vars
SetVar(t) ==
    /\ tpc[t] = "set"
    /\ ti[t] <= Len(tvars[t])
    /\ env' = Assign(env, tvars[t][ti[t]][1], tvars[t][ti[t]][2])
    /\ ti' = [ti EXCEPT ![t] = @ + 1]
    /\ UNCHANGED <<ENV_MUTEX, tpc, tvars, tblock, told, trest, tpanicking, tout>>

\* the loop over &vars ends
SetDone(t) ==
    /\ tpc[t] = "set"
    /\ ti[t] > Len(tvars[t])
    /\ tpc' = [tpc EXCEPT ![t] = "block"]
    /\ UNCHANGED <<env, ENV_MUTEX, tvars, tblock, ti, told, trest, tpanicking, tout>>

\* block(): assert_eq!(TerminalProgram::detect(), program) holds;
\* drop(old_env) begins
BlockReturns(t) ==
    /\ tpc[t] = "block"
    /\ detect = tblock[t][1]
    /\ tpc' = [tpc EXCEPT ![t] = "drop"]
    /\ trest' = [trest EXCEPT ![t] = told[t]]
    /\ UNCHANGED <<env, ENV_MUTEX, tvars, tblock, ti, told, tpanicking, tout>>

\* block(): the assertion fails and panics; unwinding drops old_env
BlockPanics(t) ==
    /\ tpc[t] = "block"
    /\ detect # tblock[t][1]
    /\ tpc' = [tpc EXCEPT ![t] = "drop"]
    /\ trest' = [trest EXCEPT ![t] = told[t]]
    /\ tpanicking' = [tpanicking EXCEPT ![t] = TRUE]
    /\ UNCHANGED <<env, ENV_MUTEX, tvars, tblock, ti, told, tout>>

\* RestoreEnv::drop: one entry of self.env.iter(), in the map's order
Restore(t) ==
    /\ tpc[t] = "drop"
    /\ \E p \in trest[t] :
          /\ env' = RestoreValue(env, p[1], p[2])
          /\ trest' = [trest EXCEPT ![t] = @ \ {p}]
    /\ UNCHANGED <<ENV_MUTEX, tpc, tvars, tblock, ti, told, tpanicking, tout>>

\* RestoreEnv::drop returns; the fields of old_env are dropped next
RestoreDone(t) ==
    /\ tpc[t] = "drop"
    /\ trest[t] = {}
    /\ tpc' = [tpc EXCEPT ![t] = "unlock"]
    /\ UNCHANGED <<env, ENV_MUTEX, tvars, tblock, ti, told, trest, tpanicking, tout>>

\* _guard is dropped: the mutex is released, and poisoned when the thread
\* is panicking; with_vars returns or the panic leaves it
Unlock(t) ==
    /\ tpc[t] = "unlock"
    /\ ENV_MUTEX' = [locked |-> FALSE,
                     poisoned |-> ENV_MUTEX.poisoned \/ tpanicking[t]]
    /\ tout' = [tout EXCEPT ![t] = IF tpanicking[t] THEN "panicked" ELSE "returned"]
    /\ tpc' = [tpc EXCEPT ![t] = "idle"]
    /\ tvars' = [tvars EXCEPT ![t] = <<>>]
    /\ tblock' = [tblock EXCEPT ![t] = None]
    /\ ti' = [ti EXCEPT ![t] = 0]
    /\ told' = [told EXCEPT ![t] = {}]
    /\ tpanicking' = [tpanicking EXCEPT ![t] = FALSE]
    /\ UNCHANGED <<env, trest>>

----------------------------------------------------------------------------
(* Spec: detection and capability derivation over every environment        *)

DetectIdle ==
    /\ detected = None
    /\ capsOf = None
    /\ caps = DefaultCapabilities

DetectInit ==
    /\ env \in [EnvNames -> EnvValues]
    /\ DetectIdle

\* let id = TerminalProgram::detect();
Detect ==
    /\ detected' = Some(detect)
    /\ UNCHANGED <<env, capsOf, caps>>

\* let caps = id.capabilities(); for the detected identity
CapabilitiesOfDetected ==
    /\ IsSome(detected)
    /\ capsOf' = detected
    /\ caps' = capabilities(detected[1])
    /\ UNCHANGED <<env, detected>>

\* program.capabilities() for any identity (the enum is public)
Capabilities ==
    /\ \E program \in TerminalProgram :
          /\ capsOf' = Some(program)
          /\ caps' = capabilities(program)
    /\ UNCHANGED <<env, detected>>

Init ==
    /\ DetectInit
    /\ StyleIdle
    /\ svgFeature = TRUE
    /\ SvgIdle
    /\ TestIdle

Next ==
    \/ Detect /\ UNCHANGED <<styleVars, svgVars, testVars>>
    \/ CapabilitiesOfDetected /\ UNCHANGED <<styleVars, svgVars, testVars>>
    \/ Capabilities /\ UNCHANGED <<styleVars, svgVars, testVars>>

Spec == Init /\ [][Next]_vars

----------------------------------------------------------------------------
(* StyleSpec: styles are built with the anstyle setters, then layered      *)

StyleInit ==
    /\ env = [n \in EnvNames |-> None]
    /\ DetectIdle
    /\ StyleIdle
    /\ svgFeature = TRUE
    /\ SvgIdle
    /\ TestIdle

StyleNext ==
    \/ SetFgColor /\ UNCHANGED <<detectVars, svgVars, testVars>>
    \/ SetBgColor /\ UNCHANGED <<detectVars, svgVars, testVars>>
    \/ SetUnderlineColor /\ UNCHANGED <<detectVars, svgVars, testVars>>
    \/ SetEffects /\ UNCHANGED <<detectVars, svgVars, testVars>>
    \/ Layer /\ UNCHANGED <<detectVars, svgVars, testVars>>

StyleSpec == StyleInit /\ [][StyleNext]_vars

----------------------------------------------------------------------------
(* SvgSpec: concurrent calls of render_svg_to_png, in either build         *)

SvgInit ==
    /\ env = [n \in EnvNames |-> None]
    /\ DetectIdle
    /\ StyleIdle
    /\ svgFeature \in BOOLEAN
    /\ SvgIdle
    /\ TestIdle

SvgNext ==
    \/ \E t \in Callers :
        \/ CallUnsupported(t) /\ UNCHANGED <<detectVars, styleVars, testVars>>
        \/ Call(t) /\ UNCHANGED <<detectVars, styleVars, testVars>>
        \/ ParseFail(t) /\ UNCHANGED <<detectVars, styleVars, testVars>>
        \/ ParseOk(t) /\ UNCHANGED <<detectVars, styleVars, testVars>>
        \/ FontsGet(t) /\ UNCHANGED <<detectVars, styleVars, testVars>>
        \/ FontsStartInit(t) /\ UNCHANGED <<detectVars, styleVars, testVars>>
        \/ FontsFinishInit(t) /\ UNCHANGED <<detectVars, styleVars, testVars>>
        \/ ConvertText(t) /\ UNCHANGED <<detectVars, styleVars, testVars>>
        \/ PixmapFail(t) /\ UNCHANGED <<detectVars, styleVars, testVars>>
        \/ PixmapOk(t) /\ UNCHANGED <<detectVars, styleVars, testVars>>
        \/ Render(t) /\ UNCHANGED <<detectVars, styleVars, testVars>>
        \/ EncodeOk(t) /\ UNCHANGED <<detectVars, styleVars, testVars>>
        \/ EncodeFail(t) /\ UNCHANGED <<detectVars, styleVars, testVars>>

SvgSpec == SvgInit /\ [][SvgNext]_vars

----------------------------------------------------------------------------
(* EnvSpec: test threads running with_vars concurrently                    *)

EnvInit ==
    /\ env \in InheritedEnvs
    /\ DetectIdle
    /\ StyleIdle
    /\ svgFeature = TRUE
    /\ SvgIdle
    /\ TestIdle

EnvNext ==
    \/ \E t \in Threads :
        \/ Lock(t) /\ UNCHANGED <<detected, capsOf, caps, styleVars, svgVars>>
        \/ LockPoisoned(t) /\ UNCHANGED <<detected, capsOf, caps, styleVars, svgVars>>
        \/ Capture(t) /\ UNCHANGED <<detected, capsOf, caps, styleVars, svgVars>>
        \/ CaptureDone(t) /\ UNCHANGED <<detected, capsOf, caps, styleVars, svgVars>>
        \/ SetVar(t) /\ UNCHANGED <<detected, capsOf, caps, styleVars, svgVars>>
        \/ SetDone(t) /\ UNCHANGED <<detected, capsOf, caps, styleVars, svgVars>>
        \/ BlockReturns(t) /\ UNCHANGED <<detected, capsOf, caps, styleVars, svgVars>>
        \/ BlockPanics(t) /\ UNCHANGED <<detected, capsOf, caps, styleVars, svgVars>>
        \/ Restore(t) /\ UNCHANGED <<detected, capsOf, caps, styleVars, svgVars>>
        \/ RestoreDone(t) /\ UNCHANGED <<detected, capsOf, caps, styleVars, svgVars>>
        \/ Unlock(t) /\ UNCHANGED <<detected, capsOf, caps, styleVars, svgVars>>

EnvSpec == EnvInit /\ [][EnvNext]_vars

----------------------------------------------------------------------------
(* Properties of detection and capabilities (checked under Spec)           *)

\* The precedence cascade of the documentation of detect(), on the raw
\* environment: first match wins.
Cascade(e) ==
    IF e["TERM"] = Some("xterm-kitty") THEN "Kitty"
    ELSE IF e["TERM"] = Some("wezterm") THEN "WezTerm"
    ELSE IF e["TERM_PROGRAM"] = Some("WezTerm") THEN "WezTerm"
    ELSE IF e["TERM_PROGRAM"] = Some("iTerm.app") THEN "ITerm2"
    ELSE IF e["TERMINOLOGY"] = Some("1") THEN "Terminology"
    ELSE "Ansi"

\* C1: for every combination of TERM, TERM_PROGRAM and TERMINOLOGY, each
\* unset or any string, detect() returns exactly what the first-match
\* cascade gives: Kitty, WezTerm (by TERM), WezTerm (by TERM_PROGRAM),
\* ITerm2, Terminology (only for TERMINOLOGY = "1"), else Ansi.
C1_DetectIsCascade ==
    IsSome(detected) => detected[1] = Cascade(env)

\* detect() has run where only the last rule decides: TERMINOLOGY is set,
\* to "true" or to "0", nothing else matches, and the result is Ansi.
C1_Witness ==
    /\ detected = Some("Ansi")
    /\ env["TERM"] = Some("xterm-256color")
    /\ env["TERM_PROGRAM"] = Some("wezterm")
    /\ env["TERMINOLOGY"] \in {Some("true"), Some("0")}

\* The capability table of section 4.1.
CapabilityTable(program) ==
    CASE program = "Dumb" ->
            [style |-> None, links |-> None, image |-> None, marks |-> None]
      [] program = "Ansi" ->
            [style |-> Some("Ansi"), links |-> Some("Osc8"),
             image |-> None, marks |-> None]
      [] program = "ITerm2" ->
            [style |-> Some("Ansi"), links |-> Some("Osc8"),
             image |-> Some("ITerm2"), marks |-> Some("ITerm2")]
      [] program = "Terminology" ->
            [style |-> Some("Ansi"), links |-> Some("Osc8"),
             image |-> Some("Terminology"), marks |-> None]
      [] program = "Kitty" ->
            [style |-> Some("Ansi"), links |-> Some("Osc8"),
             image |-> Some("Kitty"), marks |-> None]
      [] program = "WezTerm" ->
            [style |-> Some("Ansi"), links |-> Some("Osc8"),
             image |-> Some("ITerm2"), marks |-> None]

\* C2: for every identity, capabilities() returns exactly its row of the
\* capability table (Dumb: nothing; Ansi: style and links; ITerm2: also
\* ITerm2 images and marks; Terminology, Kitty: their image protocol, no
\* marks; WezTerm: ITerm2 images, no marks).
C2_CapabilitiesMatchTable ==
    IsSome(capsOf) => caps = CapabilityTable(capsOf[1])

\* capabilities() has been called on WezTerm: ITerm2 images and no marks.
C2_Witness ==
    /\ capsOf = Some("WezTerm")
    /\ caps.image = Some("ITerm2")
    /\ caps.marks = None

\* C3: whenever TERM is xterm-kitty, detect() returns Kitty, whatever
\* TERM_PROGRAM and TERMINOLOGY are.
C3_KittyTermWins ==
    (IsSome(detected) /\ env["TERM"] = Some("xterm-kitty")) => detected = Some("Kitty")

\* detect() returned Kitty with TERM_PROGRAM=iTerm.app and TERMINOLOGY=1 set.
C3_Witness ==
    /\ detected = Some("Kitty")
    /\ env["TERM"] = Some("xterm-kitty")
    /\ env["TERM_PROGRAM"] = Some("iTerm.app")
    /\ env["TERMINOLOGY"] = Some("1")

\* C9: detect() always returns an identity, never Dumb, so the capabilities
\* derived from a detected identity have style and links present.
C9_DetectedNeverDumb ==
    /\ IsSome(detected) => detected[1] \in TerminalProgram \ {"Dumb"}
    /\ (IsSome(detected) /\ capsOf = detected) =>
            (IsSome(caps.style) /\ IsSome(caps.links))

\* detect() has run with TERM=dumb and the other two variables unset, and
\* the capabilities of what it returned have been derived.
C9_Witness ==
    /\ env["TERM"] = Some("dumb")
    /\ env["TERM_PROGRAM"] = None
    /\ env["TERMINOLOGY"] = None
    /\ IsSome(detected)
    /\ capsOf = detected

----------------------------------------------------------------------------
(* Properties of style layering (checked under StyleSpec)                  *)

\* The effects a bit set holds, as a set of flag numbers.
EffectSet(bits) == {i \in 0..(NumEffects - 1) : (bits \div Pow2(i)) % 2 = 1}

\* `m` is `top` layered on `bottom` as the documentation describes it.
IsLayered(top, bottom, m) ==
    /\ m.fg = (IF IsSome(top.fg) THEN top.fg ELSE bottom.fg)
    /\ m.bg = (IF IsSome(top.bg) THEN top.bg ELSE bottom.bg)
    /\ m.underline = (IF IsSome(top.underline) THEN top.underline ELSE bottom.underline)
    /\ m.effects \in EffectBits
    /\ EffectSet(m.effects) = EffectSet(top.effects) \cup EffectSet(bottom.effects)

\* C4: top.on_top_of(bottom) has, for foreground, background and underline
\* colour independently, top's value when top sets it and bottom's
\* otherwise, and its effects are the union of the effects of both.
C4_OnTopOfLayers ==
    IsSome(merged) =>
        /\ IsLayered(sa, sb, merged[1].ab)
        /\ IsLayered(sb, sc, merged[1].bc)

\* Two styles with different effects were layered, only the lower one
\* setting a foreground: the result has both effects and that foreground.
C4_Witness ==
    /\ IsSome(merged)
    /\ sa.fg = None /\ sb.fg = Some(2) /\ sa.effects = 1 /\ sb.effects = 2
    /\ merged[1].ab.fg = Some(2)
    /\ merged[1].ab.effects = 3

\* C10: layering is associative: a.on_top_of(b).on_top_of(c) equals
\* a.on_top_of(b.on_top_of(c)) in every attribute.
C10_OnTopOfAssociative ==
    IsSome(merged) => merged[1].left = merged[1].right

\* Three styles were layered that all set the foreground, the middle one
\* unlike the other two.
C10_Witness ==
    /\ IsSome(merged)
    /\ sa.fg = Some(1) /\ sb.fg = Some(1) /\ sc.fg = Some(2)
    /\ merged[1].left.fg = Some(1)

----------------------------------------------------------------------------
(* Properties of rasterization (checked under SvgSpec)                     *)

\* C5: however the calls interleave, the closure building the font catalog
\* runs at most once, and exactly once before any caller holds a catalog; a
\* caller reaching FONTS during another's build has no step until the build
\* ends; every caller past get_or_init holds the one catalog of the cell.
C5_FontsBuiltOnce ==
    /\ builds <= 1
    /\ Cardinality({t \in Callers : cpc[t] = "build"}) <= 1
    /\ FONTS.state = "running" <=> (\E t \in Callers : cpc[t] = "build")
    /\ FONTS.state = "complete" <=> builds = 1
    /\ FONTS.state = "complete" => FONTS.value = Some(1)
    /\ \A t \in Callers :
          /\ (cpc[t] = "fonts" /\ FONTS.state = "running") =>
                ~ENABLED (FontsGet(t) \/ FontsStartInit(t))
          /\ IsSome(cfonts[t]) => (FONTS.state = "complete" /\ cfonts[t] = FONTS.value)
          /\ cpc[t] \in {"convert", "pixmap", "render", "encode"} => IsSome(cfonts[t])

\* One caller is running the closure while another has reached get_or_init.
C5_Witness ==
    \E t, u \in Callers :
        /\ t # u
        /\ cpc[t] = "build"
        /\ cpc[u] = "fonts"
        /\ FONTS.state = "running"

\* C6: a call whose bytes do not parse returns the ParseError as a value,
\* having run the parse once and nothing after it: no catalog built or
\* fetched by it, no pixmap, no rendering, no encoding.
C6_ParseErrorStopsPipeline ==
    \A t \in Callers :
        (svgFeature /\ cpc[t] = "idle" /\ IsSome(csvg[t]) /\ ~csvg[t][1].valid) =>
            /\ cresult[t] = Some(Err("ParseError"))
            /\ csteps[t] = <<"parse">>
            /\ cfonts[t] = None
            /\ cpixmap[t] = None

\* A call on bytes that do not parse has returned while the catalog was
\* still unbuilt.
C6_Witness ==
    \E t \in Callers :
        /\ cpc[t] = "idle"
        /\ IsSome(csvg[t]) /\ ~csvg[t][1].valid
        /\ cresult[t] = Some(Err("ParseError"))
        /\ FONTS.state = "incomplete"

\* C7: in a build without the feature every call returns Unsupported at
\* once: nothing is parsed, FONTS stays empty, no pixmap is allocated.
C7_UnsupportedDoesNothing ==
    ~svgFeature =>
        /\ FONTS = OnceLock_new
        /\ builds = 0
        /\ \A t \in Callers :
              /\ cpc[t] = "idle"
              /\ csteps[t] = <<>>
              /\ ctree[t] = None /\ cfonts[t] = None /\ cpixmap[t] = None
              /\ cresult[t] \in {None, Some(Err("Unsupported"))}

\* Every caller has called once in the build without the feature.
C7_Witness ==
    /\ ~svgFeature
    /\ \A t \in Callers : cresult[t] = Some(Err("Unsupported"))

----------------------------------------------------------------------------
(* Properties of the tests' harness (checked under EnvSpec)                *)

\* The value the loop of with_vars leaves in `name`: the last entry for it.
LastSet(vs, name) ==
    LET k == CHOOSE i \in 1..Len(vs) :
                 /\ vs[i][1] = name
                 /\ \A j \in (i + 1)..Len(vs) : vs[j][1] # name
    IN vs[k][2]

NamesOf(vs) == {vs[i][1] : i \in 1..Len(vs)}

\* Thread t is between its lock and the release of its guard.
Holding(t) == tpc[t] \in {"capture", "set", "block", "drop", "unlock"}

\* C8: at most one with_vars call at a time is between taking the lock
\* (hence its first modification) and its release; a block runs with its
\* own settings in place; and when the restoration is over, after a return
\* or a panic of the block alike, every variable of vars holds what was
\* captured for it, while the mutex is still held.
C8_EnvSerializedAndRestored ==
    /\ Cardinality({t \in Threads : Holding(t)}) <= 1
    /\ \A t \in Threads :
          /\ Holding(t) => ENV_MUTEX.locked
          /\ tpc[t] = "block" =>
                \A name \in NamesOf(tvars[t]) : env[name] = LastSet(tvars[t], name)
          /\ tpc[t] = "unlock" =>
                /\ {p[1] : p \in told[t]} = NamesOf(tvars[t])
                /\ \A p \in told[t] : env[p[1]] = p[2]

\* A block panicked and the restoration is over, the guard not yet
\* released: a variable that was unset, and one that held another value than
\* the call gave it, are back.
C8_Witness ==
    \E t \in Threads :
        /\ tpc[t] = "unlock"
        /\ tpanicking[t]
        /\ \E p, q \in told[t] :
              /\ p[2] = None /\ IsSome(LastSet(tvars[t], p[1]))
              /\ IsSome(q[2]) /\ q[2] # LastSet(tvars[t], q[1])

====
